---- MODULE Spec2Model ----
(***************************************************************************)
(* Energy-envelope whistle counter (detect_whistles.py).                   *)
(*                                                                         *)
(* Number representation.  The program computes with Python floats; the    *)
(* model computes with integers:                                           *)
(*   - timestamps (time_info.inputBufferAdcTime) : ticks of 2^-10 s, so    *)
(*     that a timestamp and the difference of two are exact doubles;       *)
(*   - --min/--max/--hold/--warmup             : milliseconds, the decimal *)
(*     written on the command line.  A difference of d ticks is compared   *)
(*     with an option of m ms as d x 1000 against m x 2^10: the two are    *)
(*     equal only when m ms is a whole number of ticks, which argparse     *)
(*     parses exactly; otherwise they differ by far more than the rounding *)
(*     of the option, so the comparison comes out as the doubles' does;    *)
(*   - the mean square of a block of samples   : multiples of 1e-12;       *)
(*   - the block energy e = rms(x)             : an interval [lo, hi] of   *)
(*     multiples of 1e-6 that contains the square root;                    *)
(*   - noise_floor                             : an interval [lo, hi] of   *)
(*     multiples of 1e-6 / FloorScale that contains the floor: every       *)
(*     update rounds lo down and hi up, so lo = hi as long as the          *)
(*     arithmetic is exact at this resolution (alpha = 1/4: the first five *)
(*     updates, FloorScale = 4^5);                                         *)
(*   - --alpha                                 : the ratio alphaNum /      *)
(*     alphaDen; --rise and --fall : whole numbers, as in every example.   *)
(* A comparison of the program has one result in the model when the        *)
(* intervals of its two sides are apart, and both results when they touch  *)
(* or overlap: the floats of the program then decide it by digits the      *)
(* model does not carry.                                                   *)
(***************************************************************************)
EXTENDS Integers, Sequences, FiniteSets, TLC

VARIABLES
    pc,           \* "startup" | "running" | "exited" | "stopped"
    args,         \* the parsed command line (argparse namespace)
    src,          \* the audio source: the blocks it is able to deliver
    heard,        \* the blocks delivered so far, in order
    dip,          \* history: timestamp of the first block of the current
                  \* continuous below-threshold run of an open whistle
    noise_floor,  \* None until seeded, then Some(interval [lo, hi])
    stream_t0,    \* None until the first callback, then Some(timestamp)
    state,        \* "IDLE" | "IN_WHISTLE"
    whistle_t0,
    low_since,    \* None or Some(timestamp)
    count,
    stdout,       \* the lines printed to standard output, in order
    stderr        \* the status values printed to standard error, in order

vars == <<pc, args, src, heard, dip, noise_floor, stream_t0, state, whistle_t0,
          low_since, count, stdout, stderr>>

detector == <<noise_floor, stream_t0, state, whistle_t0, low_since, count>>

----------------------------------------------------------------------------
(* Python values *)

None == <<>>
Some(x) == <<x>>
Val(o) == o[1]

\* bool(o) for an Optional[float]: None and 0.0 are both falsy
Truthy(o) == o # None /\ Val(o) # 0

\* variant: the quiet timer restarted on every block
PyOrNow(o, x) == x

\* the value of the Python expression  o or x
PyOr(o, x) == IF Truthy(o) THEN Val(o) ELSE x

----------------------------------------------------------------------------
(* Bounds of the model *)

MaxBlocks == 6      \* blocks delivered in a free run

(* Resolution of the numbers *)

FloorScale == 2 ^ 10  \* noise_floor steps per energy unit
TicksPerSecond == 2 ^ 10  \* timestamp steps per second
Eps == 1            \* the 1e-12 of rms(), in mean-square units

----------------------------------------------------------------------------
(* Helpers *)

RECURSIVE IsqrtBits(_, _, _)
\* largest r with r*r <= n, built bit by bit from the bit b downwards; n is
\* below 2^31, so r is at most 46340 and no square of a larger number is
\* formed
IsqrtBits(n, r, b) ==
    IF b = 0 THEN r
    ELSE IF r + b <= 46340 /\ (r + b) * (r + b) <= n
         THEN IsqrtBits(n, r + b, b \div 2)
         ELSE IsqrtBits(n, r, b \div 2)

Isqrt(n) == IsqrtBits(n, 0, 32768)

\* an interval of the model: the value is some v with lo <= v <= hi
Exactly(x) == [lo |-> x, hi |-> x]

MinOf(S) == CHOOSE x \in S : \A y \in S : x <= y
MaxOf(S) == CHOOSE x \in S : \A y \in S : x >= y

\* x / d rounded up, d > 0
CeilDiv(x, d) == -((-x) \div d)

\* k x v and v / d for an interval v
Times(k, v) == [lo |-> MinOf({k * v.lo, k * v.hi}),
                hi |-> MaxOf({k * v.lo, k * v.hi})]
Over(v, d) == [lo |-> v.lo \div d, hi |-> CeilDiv(v.hi, d)]
Sum(v, w) == [lo |-> v.lo + w.lo, hi |-> v.hi + w.hi]

\* rms(x) for a block x whose mean square is meansq:
\* sqrt(mean(x**2) + 1e-12), between the whole numbers around the root
rms(meansq) ==
    LET r == Isqrt(meansq + Eps)
    IN  [lo |-> r, hi |-> IF r * r = meansq + Eps THEN r ELSE r + 1]

\* variant: the floor never adapts
SmoothFrozen(a, floor, e) == floor

\* variant: the two weights exchanged
SmoothSwapped(a, floor, e) ==
    Over(Sum(Times(a.alphaNum, floor),
             Times((a.alphaDen - a.alphaNum) * FloorScale, e)), a.alphaDen)

\* (1 - alpha) * noise_floor + alpha * e
Smooth(a, floor, e) ==
    Over(Sum(Times(a.alphaDen - a.alphaNum, floor),
             Times(a.alphaNum * FloorScale, e)), a.alphaDen)

\* The results a comparison x > y (x < y) of two floats may give, x and y
\* being the intervals of the model that contain them: when the intervals are
\* apart the floats are ordered the same way; when they touch or overlap the
\* order of the floats is beyond the resolution of the model and both results
\* are possible.
Greater(x, y) ==
    IF x.lo > y.hi THEN {TRUE} ELSE IF x.hi < y.lo THEN {FALSE} ELSE BOOLEAN
Less(x, y) ==
    IF x.hi < y.lo THEN {TRUE} ELSE IF x.lo > y.hi THEN {FALSE} ELSE BOOLEAN

\* e > args.rise * noise_floor: the results it may give
Above(a, e, floor) == Greater(Times(FloorScale, e), Times(a.rise, floor))

\* e < args.fall * noise_floor: the results it may give
Below(a, e, floor) == Less(Times(FloorScale, e), Times(a.fall, floor))

\* a difference of timestamps (ticks) and an option given in seconds (ms),
\* both in units of 1 / (1000 x TicksPerSecond) s
Elapsed(d) == d * 1000
Option(ms) == ms * TicksPerSecond

\* variant: no warm-up at all
InWarmupNever(a, now, t0) == FALSE

\* variant: the warm-up measured on the absolute timestamp
InWarmupAbsolute(a, now, t0) == Elapsed(now) < Option(a.warmup)

\* now - stream_t0 < args.warmup
InWarmup(a, now, t0) == Elapsed(now - t0) < Option(a.warmup)

\* now - low_since >= args.hold
HoldMet(a, now, low) == Elapsed(now - low) >= Option(a.hold)

\* variant: the duration window without its lower bound
AcceptedNoMin(a, duration) == Elapsed(duration) <= Option(a.max)

\* variant: the duration window with its bounds excluded
AcceptedStrict(a, duration) ==
    Option(a.min) < Elapsed(duration) /\ Elapsed(duration) < Option(a.max)

\* args.min <= duration <= args.max
Accepted(a, duration) ==
    Option(a.min) <= Elapsed(duration) /\ Elapsed(duration) <= Option(a.max)

\* variant: the quiet timer kept when the energy bounces back
LowSinceKept(low, now, below) == IF below THEN Some(PyOr(low, now)) ELSE low

\* low_since after a block of an open whistle: started or extended when the
\* energy is below the fall threshold, cleared when it bounced back
LowSince(low, now, below) == IF below THEN Some(PyOr(low, now)) ELSE None

\* the two-decimal rendering {x:.2f} of a time of x ticks, in hundredths of a
\* second: the nearest hundredth, a tie going to the even one
Fmt2(x) ==
    LET q == (x * 100) \div TicksPerSecond
        r == (x * 100) % TicksPerSecond
    IN  IF 2 * r > TicksPerSecond \/ (2 * r = TicksPerSecond /\ q % 2 = 1)
        THEN q + 1 ELSE q

\* blocksize / samplerate, in ms
Period(a) == (a.chunk * 1000) \div a.fs

----------------------------------------------------------------------------
(* Command line: argparse defaults, overridden per run *)

Defaults ==
    [fs |-> 16000, chunk |-> 1024, min |-> 1000, max |-> 15000,
     rise |-> 6, fall |-> 3, hold |-> 400,
     alphaNum |-> 2, alphaDen |-> 100, warmup |-> 1000]

\* variant: equal multipliers let through
RejectedStrict(a) == a.fall > a.rise

\* the module-level check  args.fall >= args.rise
Rejected(a) == a.fall >= a.rise

HysteresisMsg == "--fall must be smaller than --rise (hysteresis)"

----------------------------------------------------------------------------
(* The audio source (sd.InputStream): the blocks it may deliver next.      *)
(* A block is its timestamp (time_info.inputBufferAdcTime), the mean       *)
(* square of its samples and the status flags of the capture layer.        *)

LastT(h) == h[Len(h)].t

\* a free source: any first timestamp of s.origins, then non-decreasing
\* timestamps by steps of s.gaps, any block energy of s.meansqs, any status
\* of s.statuses
FreeBlocks(s, h) ==
    IF Len(h) >= s.limit THEN {}
    ELSE [t : IF h = <<>> THEN s.origins ELSE {LastT(h) + g : g \in s.gaps},
          meansq : s.meansqs,
          status : s.statuses]

\* the number of blocks, one every Period(a) ms, that cover ms milliseconds
BlocksFor(ms, a) == (ms + Period(a) - 1) \div Period(a)

\* the time of the block n of a stream, n x blocksize / samplerate after the
\* first one, on the clock of the timestamps: the nearest tick
Stamp(n, a) == (n * a.chunk * TicksPerSecond + a.fs \div 2) \div a.fs

\* a scripted source: s.quiet blocks of energy 0.001, then blocks of energy
\* 0.01 for s.loud ms, then blocks of energy 0.001 for s.tail ms, one block
\* every Period(a) ms, the first one at a timestamp of s.origins
ScriptLen(s, a) == s.quiet + BlocksFor(s.loud, a) + BlocksFor(s.tail, a)

ScriptBlocks(s, a, h) ==
    LET n == Len(h)
        m == IF n >= s.quiet /\ n < s.quiet + BlocksFor(s.loud, a)
             THEN 10000 * 10000 - Eps ELSE 1000 * 1000 - Eps
    IN  IF n >= ScriptLen(s, a) THEN {}
        ELSE [t : IF n = 0 THEN s.origins ELSE {h[1].t + Stamp(n, a)},
              meansq : {m}, status : {""}]

Blocks(s, a, h) ==
    IF s.mode = "free" THEN FreeBlocks(s, h) ELSE ScriptBlocks(s, a, h)

----------------------------------------------------------------------------
(* callback(indata, frames, time_info, status) *)

\* variant: the rise comparison made against the floor of the previous block
IdleStale(b, floor) ==
    \E opens \in Above(args, rms(b.meansq), Val(noise_floor)) :
    IF opens
    THEN /\ whistle_t0' = b.t
         /\ state' = "IN_WHISTLE"
         /\ low_since' = None
         /\ stdout' = Append(stdout,
                [kind |-> "start", at |-> Fmt2(b.t - Val(stream_t0))])
         /\ UNCHANGED count
    ELSE UNCHANGED <<state, whistle_t0, low_since, count, stdout>>

\* variant: opening a whistle leaves low_since as the last whistle left it
IdleKeeping(b, floor) ==
    \E opens \in Above(args, rms(b.meansq), floor) :
    IF opens
    THEN /\ whistle_t0' = b.t
         /\ state' = "IN_WHISTLE"
         /\ stdout' = Append(stdout,
                [kind |-> "start", at |-> Fmt2(b.t - Val(stream_t0))])
         /\ UNCHANGED <<count, low_since>>
    ELSE UNCHANGED <<state, whistle_t0, low_since, count, stdout>>

\* the IDLE branch of the state machine, floor being the updated noise floor
Idle(b, floor) ==
    \E opens \in Above(args, rms(b.meansq), floor) :
    IF opens
    THEN \* whistle starts
         /\ whistle_t0' = b.t
         /\ state' = "IN_WHISTLE"
         /\ low_since' = None
         /\ stdout' = Append(stdout,
                [kind |-> "start", at |-> Fmt2(b.t - Val(stream_t0))])
         /\ UNCHANGED count
    ELSE UNCHANGED <<state, whistle_t0, low_since, count, stdout>>

\* variant: closing a whistle clears low_since
InWhistleClearing(b, floor) ==
    \E below \in Below(args, rms(b.meansq), floor) :
    LET now == b.t
        low == LowSince(low_since, now, below)
        duration == now - whistle_t0
        at == Fmt2(now - Val(stream_t0))
    IN  /\ low_since' = IF below /\ HoldMet(args, now, Val(low))
                       THEN None ELSE low
        /\ UNCHANGED whistle_t0
        /\ IF below /\ HoldMet(args, now, Val(low))
           THEN \* whistle finished
                /\ state' = "IDLE"
                /\ IF Accepted(args, duration)
                   THEN /\ count' = count + 1
                        /\ stdout' = Append(stdout,
                             [kind |-> "counted", at |-> at, n |-> count + 1,
                              duration |-> Fmt2(duration)])
                   ELSE /\ count' = count
                        /\ stdout' = Append(stdout,
                             [kind |-> "ignored", at |-> at,
                              duration |-> Fmt2(duration)])
           ELSE UNCHANGED <<state, count, stdout>>

\* variant: an ignored whistle is counted as well
InWhistleCountAll(b, floor) ==
    \E below \in Below(args, rms(b.meansq), floor) :
    LET now == b.t
        low == LowSince(low_since, now, below)
        duration == now - whistle_t0
        at == Fmt2(now - Val(stream_t0))
    IN  /\ low_since' = low
        /\ UNCHANGED whistle_t0
        /\ IF below /\ HoldMet(args, now, Val(low))
           THEN \* whistle finished
                /\ state' = "IDLE"
                /\ IF Accepted(args, duration)
                   THEN /\ count' = count + 1
                        /\ stdout' = Append(stdout,
                             [kind |-> "counted", at |-> at, n |-> count + 1,
                              duration |-> Fmt2(duration)])
                   ELSE /\ count' = count + 1
                        /\ stdout' = Append(stdout,
                             [kind |-> "ignored", at |-> at,
                              duration |-> Fmt2(duration)])
           ELSE UNCHANGED <<state, count, stdout>>

\* the IN_WHISTLE branch of the state machine
InWhistle(b, floor) ==
    \E below \in Below(args, rms(b.meansq), floor) :
    LET now == b.t
        low == LowSince(low_since, now, below)
        duration == now - whistle_t0
        at == Fmt2(now - Val(stream_t0))
    IN  /\ low_since' = low
        /\ UNCHANGED whistle_t0
        /\ IF below /\ HoldMet(args, now, Val(low))
           THEN \* whistle finished
                /\ state' = "IDLE"
                /\ IF Accepted(args, duration)
                   THEN /\ count' = count + 1
                        /\ stdout' = Append(stdout,
                             [kind |-> "counted", at |-> at, n |-> count + 1,
                              duration |-> Fmt2(duration)])
                   ELSE /\ count' = count
                        /\ stdout' = Append(stdout,
                             [kind |-> "ignored", at |-> at,
                              duration |-> Fmt2(duration)])
           ELSE UNCHANGED <<state, count, stdout>>

\* callback after the status line: timestamp, energy, noise floor, state
\* machine
process(b) ==
    LET now == b.t
        t0 == IF stream_t0 = None THEN now ELSE Val(stream_t0)
        e == rms(b.meansq)
        floor == Smooth(args, Val(noise_floor), e)
    IN  /\ stream_t0' = Some(t0)
        /\ IF noise_floor = None
           THEN \* seed with first chunk, don't detect on this buffer
                /\ noise_floor' = Some(Times(FloorScale, e))
                /\ UNCHANGED <<state, whistle_t0, low_since, count, stdout>>
           ELSE IF InWarmup(args, now, t0)
           THEN \* warm-up period: adapt floor but don't detect
                /\ noise_floor' = Some(floor)
                /\ UNCHANGED <<state, whistle_t0, low_since, count, stdout>>
           ELSE /\ noise_floor' = Some(floor)
                /\ IF state = "IDLE" THEN Idle(b, floor)
                   ELSE InWhistle(b, floor)

\* variant: a block delivered with a status is reported and dropped
callbackDropXrun(b) ==
    /\ stderr' = IF b.status # "" THEN Append(stderr, b.status) ELSE stderr
    /\ IF b.status # "" THEN UNCHANGED detector /\ UNCHANGED stdout
       ELSE process(b)

callback(b) ==
    /\ stderr' = IF b.status # "" THEN Append(stderr, b.status) ELSE stderr
    /\ process(b)

----------------------------------------------------------------------------
(* The program *)

\* module level: parse_args(), the hysteresis check, then main() opens the
\* input stream
Startup ==
    /\ pc = "startup"
    /\ IF Rejected(args)
       THEN /\ pc' = "exited"
            /\ stderr' = Append(stderr, HysteresisMsg)
            /\ UNCHANGED stdout
       ELSE /\ pc' = "running"
            /\ stdout' = Append(stdout, [kind |-> "listening"])
            /\ UNCHANGED stderr
    /\ UNCHANGED <<args, src, heard, dip, detector>>

\* the first block of the current continuous below-threshold run of the open
\* whistle, after the block b has been processed (history, read by no code)
DipAfter(b) ==
    IF state = "IN_WHISTLE" /\ state' = "IN_WHISTLE"
       /\ low_since' # None
    THEN IF dip = None THEN Some(b.t) ELSE dip
    ELSE None

\* the stream delivers one block: PortAudio runs callback() on it
Block ==
    /\ pc = "running"
    /\ \E b \in Blocks(src, args, heard) :
          /\ callback(b)
          /\ heard' = Append(heard, b)
          /\ dip' = DipAfter(b)
    /\ UNCHANGED <<pc, args, src>>

\* variant: an open whistle is closed and counted at shutdown
KeyboardInterruptFlush ==
    /\ pc = "running"
    /\ pc' = "stopped"
    /\ count' = IF state = "IN_WHISTLE" THEN count + 1 ELSE count
    /\ stdout' = Append(stdout, [kind |-> "stopped", n |-> count'])
    /\ UNCHANGED <<args, src, heard, dip, noise_floor, stream_t0, state,
                   whistle_t0, low_since, stderr>>

\* Ctrl-C in main(): the stream is closed and the total is printed
KeyboardInterrupt ==
    /\ pc = "running"
    /\ pc' = "stopped"
    /\ stdout' = Append(stdout, [kind |-> "stopped", n |-> count])
    /\ UNCHANGED <<args, src, heard, dip, detector, stderr>>

Next == Startup \/ Block \/ KeyboardInterrupt

\* the global state at import time, nothing delivered yet
InitState ==
    /\ pc = "startup"
    /\ heard = <<>>
    /\ dip = None
    /\ noise_floor = None
    /\ stream_t0 = None
    /\ state = "IDLE"
    /\ whistle_t0 = 0
    /\ low_since = None
    /\ count = 0
    /\ stdout = <<>>
    /\ stderr = <<>>

----------------------------------------------------------------------------
(* Spec: free runs over a small family of command lines.  alpha = 1/4,     *)
(* rise = 2: a whistle opens when e > 3 x the previous floor.              *)

FreeSource ==
    [mode |-> "free", limit |-> MaxBlocks - 1,
     origins |-> {0, TicksPerSecond}, gaps |-> {0, TicksPerSecond \div 2}, meansqs |-> {0, 15, 4095}, statuses |-> {""},
     quiet |-> 0, loud |-> 0, tail |-> 0]

FreeArgs ==
    {[Defaults EXCEPT !.rise = 2, !.fall = f, !.hold = h, !.warmup = w,
                      !.alphaNum = 1, !.alphaDen = 4,
                      !.min = 500, !.max = 1000] :
        f \in {1, 2, 3}, h \in {0, 500}, w \in {0, 500}}

Init ==
    /\ InitState
    /\ args \in FreeArgs
    /\ src = FreeSource

Spec == Init /\ [][Next]_vars

----------------------------------------------------------------------------
(* SpecWhistle: longer runs of one command line family (rise 2, fall 1,    *)
(* alpha 1/4, no warm-up).  SpecBlast: the same with timestamps away       *)
(* from 0.                                                                 *)

WhistleSource == [FreeSource EXCEPT !.limit = MaxBlocks]

WhistleArgs == {a \in FreeArgs : a.fall = 1 /\ a.warmup = 0}

InitWhistle ==
    /\ InitState
    /\ args \in WhistleArgs
    /\ src = WhistleSource

SpecWhistle == InitWhistle /\ [][Next]_vars

BlastSource == [WhistleSource EXCEPT !.origins = {TicksPerSecond}]

BlastArgs == WhistleArgs

InitBlast ==
    /\ InitState
    /\ args \in BlastArgs
    /\ src = BlastSource

SpecBlast == InitBlast /\ [][Next]_vars

----------------------------------------------------------------------------
(* SpecHyst: rise 6, fall 3, hold 0.4 s; alpha 1/8 (a whistle opens when   *)
(* e > 21 x the previous floor) or alpha 1.  Energies 64, 512, 4096.       *)

HystSource ==
    [FreeSource EXCEPT !.meansqs = {64 * 64 - Eps, 512 * 512 - Eps,
                                    4096 * 4096 - Eps}]

HystArgs ==
    {[Defaults EXCEPT !.alphaNum = n, !.alphaDen = 8, !.warmup = w,
                      !.min = 500, !.max = 1000] :
        n \in {1, 8}, w \in {0, 500}}

InitHyst ==
    /\ InitState
    /\ args \in HystArgs
    /\ src = HystSource

SpecHyst == InitHyst /\ [][Next]_vars

----------------------------------------------------------------------------
(* SpecArgs: command lines inside and outside the documented ranges, short *)
(* runs.                                                                   *)

ArgsSource ==
    [FreeSource EXCEPT !.limit = MaxBlocks - 3, !.origins = {TicksPerSecond}]

AnyArgs ==
    {[Defaults EXCEPT !.rise = rf[1], !.fall = rf[2], !.hold = h,
                      !.warmup = w, !.alphaNum = n, !.alphaDen = 4,
                      !.min = mm[1], !.max = mm[2]] :
        rf \in {<<3, 2>>, <<2, 2>>, <<3, 0>>, <<-1, -2>>},
        h \in {-500, 500}, w \in {-500, 0},
        n \in {-1, 0, 1, 5},
        mm \in {<<500, 1000>>, <<1000, 500>>}}

\* the constraints of the configuration table
ValidArgs(a) ==
    /\ a.fs > 0 /\ a.chunk > 0
    /\ 0 <= a.min /\ a.min <= a.max
    /\ a.rise > 0
    /\ 0 < a.fall /\ a.fall < a.rise
    /\ a.hold >= 0
    /\ 0 < a.alphaNum /\ a.alphaNum <= a.alphaDen
    /\ a.warmup >= 0

InitArgs ==
    /\ InitState
    /\ args \in AnyArgs
    /\ src = ArgsSource

SpecArgs == InitArgs /\ [][Next]_vars

----------------------------------------------------------------------------
(* SpecScenario: the two scripted runs.  --alpha 0.01 --min 2.0, the other *)
(* options at their defaults; 50 blocks of energy 0.001, then energy 0.01  *)
(* for 3.0 s or 0.5 s, then energy 0.001 for 0.5 s.                        *)

ScenarioArgs == [Defaults EXCEPT !.alphaNum = 1, !.alphaDen = 100, !.min = 2000]

ScenarioSources ==
    {[mode |-> "script", limit |-> 0, origins |-> {0, TicksPerSecond},
      gaps |-> {},
      meansqs |-> {}, statuses |-> {""},
      quiet |-> 50, loud |-> l, tail |-> 500] : l \in {3000, 500}}

InitScenario ==
    /\ InitState
    /\ args = ScenarioArgs
    /\ src \in ScenarioSources

SpecScenario == InitScenario /\ [][Next]_vars

----------------------------------------------------------------------------
(* SpecXrun: the capture layer may flag any block (overflow); quiet and     *)
(* loud blocks, rise 2, fall 1, alpha 1/4, no warm-up.                     *)

XrunSource ==
    [FreeSource EXCEPT !.limit = MaxBlocks - 2, !.meansqs = {0, 4095},
                       !.statuses = {"", "input overflow"}]

InitXrun ==
    /\ InitState
    /\ args \in WhistleArgs
    /\ src = XrunSource

SpecXrun == InitXrun /\ [][Next]_vars

----------------------------------------------------------------------------
(* SpecFloor: the smoothing over a range of alpha, on and off the grid      *)
(* where it is exact: 1/50 (the default), 1/10, 1/4, 1/2 and 1; energies 1  *)
(* and 4, rise 2, fall 1.  The runs with alpha 1/50 are two blocks shorter. *)

FloorArgs ==
    {[Defaults EXCEPT !.rise = 2, !.fall = 1, !.hold = 0, !.warmup = w,
                      !.alphaNum = 1, !.alphaDen = d,
                      !.min = 500, !.max = 1000] :
        w \in {0, 500}, d \in {50, 10, 4, 2, 1}}

FloorSource(a) ==
    [FreeSource EXCEPT !.meansqs = {0, 15},
                       !.limit = IF a.alphaDen = 50 THEN MaxBlocks - 3
                                 ELSE MaxBlocks - 1]

InitFloor ==
    /\ InitState
    /\ args \in FloorArgs
    /\ src = FloorSource(args)

SpecFloor == InitFloor /\ [][Next]_vars

----------------------------------------------------------------------------
(* Properties *)

\* the number of lines of a kind printed so far
Printed(kind) == Cardinality({i \in 1..Len(stdout) : stdout[i].kind = kind})

\* the lines printed by callback
Whistles == SelectSeq(stdout, LAMBDA l : l.kind \in {"start", "counted", "ignored"})

Opens == Printed("start")
Closes == Printed("counted") + Printed("ignored")

\* a time difference of d ticks is at least / less than / at most ms
\* milliseconds
AtLeast(d, ms) == Elapsed(d) >= Option(ms)
Under(d, ms) == Elapsed(d) < Option(ms)
AtMost(d, ms) == Elapsed(d) <= Option(ms)

\* a comparison whose result is certain
Surely(results) == results = {TRUE}
SurelyNot(results) == results = {FALSE}

\* the block of mean square m is louder than k x the block of mean square
\* base / quieter than k x it
Louder(m, k, base) == Surely(Greater(rms(m), Times(k, rms(base))))
Quieter(m, k, base) == Surely(Less(rms(m), Times(k, rms(base))))

\* a step that processes a block
BlockStep == Len(heard') = Len(heard) + 1

Last(h) == h[Len(h)]

\* nothing has been detected: no line about a whistle, count still 0
NoDetection == state = "IDLE" /\ count = 0 /\ Opens = 0 /\ Closes = 0

\* all the blocks of h carry the same energy: a floor seeded by the first
\* one has not moved since
Converged(h) == h # <<>> /\ \A k \in 1..Len(h) : h[k].meansq = h[1].meansq

\* h is a quiet baseline of energy F (past the warm-up), then one run of
\* blocks each louder than rise x F, then quiet blocks of energy F whose
\* timestamps span at least hold
OneBlast(h, a) ==
    \E i, j \in 1..Len(h) :
        /\ i < j /\ j < Len(h)
        /\ Converged(SubSeq(h, 1, i))
        /\ AtLeast(h[i + 1].t - h[1].t, a.warmup)
        /\ \A k \in (i + 1)..j : Louder(h[k].meansq, a.rise, h[1].meansq)
        /\ \A k \in (j + 1)..Len(h) : h[k].meansq = h[1].meansq
        /\ AtLeast(Last(h).t - h[j + 1].t, a.hold)

\* C1: a quiet baseline, one maximal run of loud blocks (each above rise x
\* the baseline) and quiet for at least hold give exactly one IDLE ->
\* IN_WHISTLE transition and exactly one close, whatever the run's length.
C1_ExactlyOnce == OneBlast(heard, args) => Opens = 1 /\ Closes = 1

\* C2: a command line with fall >= rise ends the program at startup, before
\* any block: callback never runs and noise_floor, state and count keep
\* their initial values; a command line with fall < rise is not rejected.
C2_HysteresisEnforced ==
    /\ args.fall >= args.rise =>
          /\ pc \in {"startup", "exited"}
          /\ heard = <<>>
          /\ noise_floor = None /\ stream_t0 = None
          /\ state = "IDLE" /\ count = 0
    /\ args.fall < args.rise => pc # "exited"

C2_Witness == pc = "exited" /\ args.fall = args.rise /\ stderr = <<HysteresisMsg>>

\* C4: on every IN_WHISTLE -> IDLE close, with duration = now - whistle_t0,
\* count grows by exactly 1 iff min <= duration <= max (bounds included);
\* otherwise count is unchanged, the close is still printed (as ignored) and
\* the state is IDLE again.
C4_DurationFilter ==
    [][(state = "IN_WHISTLE" /\ state' = "IDLE") =>
         LET d == Last(heard').t - whistle_t0
             line == Last(stdout')
         IN  /\ Len(stdout') = Len(stdout) + 1
             /\ IF AtLeast(d, args.min) /\ AtMost(d, args.max)
                THEN count' = count + 1 /\ line.kind = "counted"
                     /\ line.n = count'
                ELSE count' = count /\ line.kind = "ignored"]_vars

\* a run with a close at a duration of exactly max, counted, and a close
\* outside the window, ignored
C4_Witness ==
    /\ \E i \in 1..Len(stdout) :
          stdout[i].kind = "counted" /\ stdout[i].duration = 100
    /\ args.max = 1000
    /\ \E i \in 1..Len(stdout) : stdout[i].kind = "ignored"
    /\ count = 1

\* C5: in an open whistle, a block below the fall threshold less than hold
\* after the first block of its dip closes nothing (state, output and count
\* unchanged); a block at or above the fall threshold clears low_since and
\* closes nothing; hence a close only ever comes at least hold after the
\* first block of the dip it ends.
C5_AntiChatter ==
    [][(state = "IN_WHISTLE" /\ BlockStep) =>
         LET b == Last(heard')
             below == Below(args, rms(b.meansq), Val(noise_floor'))
             start == IF dip = None THEN b.t ELSE Val(dip)
             quiet == state' = "IN_WHISTLE" /\ stdout' = stdout
                      /\ count' = count
         IN  /\ (Surely(below) /\ Under(b.t - start, args.hold)) => quiet
             /\ SurelyNot(below) => quiet /\ low_since' = None
             /\ state' = "IDLE" => /\ ~SurelyNot(below)
                                   /\ AtLeast(b.t - start, args.hold)]_vars

\* energies 64 1 64 1 1 after the seed: the open, a dip of one block, the
\* bounce, then a second dip that closes the whistle hold after its own
\* first block
C5_Witness ==
    /\ args.hold = 500 /\ args.warmup = 0 /\ args.fall = 1
    /\ Len(heard) = 6
    /\ heard[2].meansq = 4095 /\ heard[3].meansq = 0
    /\ heard[4].meansq = 4095 /\ heard[5].meansq = 0 /\ heard[6].meansq = 0
    /\ heard[4].t = heard[3].t
    /\ heard[6].t = heard[5].t + TicksPerSecond \div 2
    /\ state = "IDLE" /\ Opens = 1 /\ Closes = 1

\* C10 as stated: after the second block nothing has been detected, whatever
\* the configuration.
C10_FirstTwoBlocks == Len(heard) = 2 => NoDetection

\* C10 amended: the first block never takes part in detection; the second
\* does not when it comes less than warmup after the first.
C10_SeedAndWarmup ==
    /\ Len(heard) = 1 => NoDetection
    /\ (Len(heard) = 2 /\ Under(heard[2].t - heard[1].t, args.warmup))
          => NoDetection

\* a quiet seed, then a loud second block still inside the warm-up
C10_Witness ==
    /\ Len(heard) = 2 /\ Under(heard[2].t - heard[1].t, args.warmup)
    /\ heard[1].meansq = 0 /\ heard[2].meansq = 4095
    /\ heard[1].t = TicksPerSecond
    /\ NoDetection

\* C3: a command line that violates a constraint of the configuration table
\* is a fatal startup error: no block is ever processed under it.
C3_AllValidated ==
    ~ValidArgs(args) => pc \in {"startup", "exited"} /\ heard = <<>>

\* the block about to be processed comes after the warm-up
PastWarmup(b) == AtLeast(b.t - heard[1].t, args.warmup)

\* C6 as stated: IDLE, past warm-up, floor converged at F: a block of energy
\* above 6F opens a whistle on that block, for every alpha in (0,1].
C6_OpensAboveRise ==
    [][(BlockStep /\ Converged(heard) /\ state = "IDLE"
        /\ PastWarmup(Last(heard'))
        /\ Louder(Last(heard').meansq, args.rise, heard[1].meansq))
       => state' = "IN_WHISTLE" /\ whistle_t0' = Last(heard').t]_vars

\* C6 amended: the block opens a whistle exactly when its energy e is above
\* 6 x the floor updated with e itself, (1-alpha)F + alpha e, that is when
\* e (1 - 6 alpha) > 6 (1 - alpha) F; never for alpha >= 1/6.
C6_OpensAboveUpdatedFloor ==
    [][(BlockStep /\ Converged(heard) /\ state = "IDLE"
        /\ PastWarmup(Last(heard')))
       => LET e == rms(Last(heard').meansq).lo
              F == rms(heard[1].meansq).lo
              N == args.alphaNum
              D == args.alphaDen
          IN  (state' = "IN_WHISTLE" /\ whistle_t0' = Last(heard').t)
              <=> e * (D - args.rise * N) > args.rise * (D - N) * F]_vars

\* floor 64, then the block of energy 4096 (> 21 x 64) opened the whistle;
\* alpha = 1/8
C6_Witness ==
    /\ args.alphaNum = 1 /\ Len(heard) >= 2
    /\ Converged(SubSeq(heard, 1, Len(heard) - 1))
    /\ heard[1].meansq = 64 * 64 - Eps
    /\ Last(heard).meansq = 4096 * 4096 - Eps
    /\ state = "IN_WHISTLE" /\ whistle_t0 = Last(heard).t
    /\ Last(stdout).kind = "start"

\* h ends with a run of blocks all below fall x F, spanning at least hold, in
\* a whistle that the block i opened from the converged floor F
QuietRun(h, a) ==
    \E i, p \in 1..Len(h) :
        /\ 1 < i /\ i < p
        /\ Converged(SubSeq(h, 1, i - 1))
        /\ Len(stdout) >= 2 /\ stdout[2].kind = "start"
        /\ stdout[2].at = Fmt2(h[i].t - h[1].t)
        /\ \A k \in p..Len(h) : Quieter(h[k].meansq, a.fall, h[1].meansq)
        /\ AtLeast(Last(h).t - h[p].t, a.hold)

\* C7: a whistle opened from a converged floor F is closed no later than the
\* last block of a run of blocks all below 3F that spans at least 0.4 s, and
\* a close comes at the first block with now - low_since >= hold.
C7_ClosesAfterHold ==
    [][BlockStep =>
         /\ QuietRun(heard, args)' => Closes' >= 1
         /\ (state = "IN_WHISTLE" /\ low_since' # None) =>
               (state' = "IDLE" <=>
                   AtLeast(Last(heard').t - Val(low_since'), args.hold))]_vars

\* the script has been delivered to its end
ScriptDone == src.mode = "script" /\ Len(heard) = ScriptLen(src, args)

\* the blocks of the loud segment
InLoud(n) == src.quiet < n /\ n <= src.quiet + BlocksFor(src.loud, args)

\* C8 as stated: the 3.0 s scenario gives exactly one whistle, accepted,
\* count 1, of a reported duration of about 3.0 s; the whistle stays open for
\* the whole loud segment and closes in the trailing silence.
C8_ThreeSeconds ==
    src.loud = 3000 =>
        /\ InLoud(Len(heard)) => state = "IN_WHISTLE"
        /\ ScriptDone =>
              /\ Opens = 1 /\ Closes = 1 /\ count = 1
              /\ Last(Whistles).kind = "counted"
              /\ Last(Whistles).duration >= 250
              /\ Last(Whistles).duration <= 350

\* C8 amended: the 3.0 s scenario gives exactly one whistle, accepted, count
\* 1, of a reported duration of 2.30 s: the floor follows the loud blocks,
\* the 30th of them is already below 3 x floor, and the whistle closes on
\* the 37th loud block, 5.50 s into the stream, not in the trailing silence.
C8_ClosesWhileLoud ==
    (src.loud = 3000 /\ Len(heard) >= src.quiet + 37) =>
        /\ state = "IDLE" /\ count = 1
        /\ Whistles = <<[kind |-> "start", at |-> 320],
                        [kind |-> "counted", at |-> 550, n |-> 1,
                         duration |-> 230]>>

C8_Witness == src.loud = 3000 /\ ScriptDone /\ pc = "running" /\ count = 1

\* C9: the 0.5 s scenario gives exactly one whistle, reported as ignored (out
\* of range), and count stays 0.
C9_HalfSecond ==
    (src.loud = 500 /\ ScriptDone) =>
        /\ Opens = 1 /\ Closes = 1 /\ Printed("ignored") = 1
        /\ count = 0 /\ state = "IDLE"

C9_Witness ==
    /\ src.loud = 500 /\ ScriptDone /\ pc = "running"
    /\ Whistles = <<[kind |-> "start", at |-> 320],
                    [kind |-> "ignored", at |-> 416, duration |-> 96]>>

\* C11: a block delivered with a non-empty status is processed exactly like
\* the same block with an empty status: noise_floor, stream_t0, state,
\* whistle_t0, low_since, count (and the lines printed) come out the same;
\* the only difference is the status printed to standard error.
C11_XrunTransparent ==
    [][(BlockStep /\ Last(heard').status # "") =>
         /\ process([Last(heard') EXCEPT !.status = ""])
         /\ stderr' = Append(stderr, Last(heard').status)]_vars

\* a flagged block opened a whistle and a flagged block closed it
C11_Witness ==
    /\ Len(heard) >= 3
    /\ heard[Len(heard) - 1].status # "" /\ Last(heard).status # ""
    /\ Len(stderr) >= 2
    /\ Closes = 1 /\ state = "IDLE"
    /\ Last(heard).t = whistle_t0 + TicksPerSecond \div 2

\* C12: after an interrupt the total printed is the number of accepted
\* closes printed before it and equals count; a whistle open at that moment
\* has its start line only: it is neither reported as closed nor counted;
\* nothing is printed and count does not move after the total.
C12_Shutdown ==
    pc = "stopped" =>
        /\ Last(stdout).kind = "stopped"
        /\ Printed("stopped") = 1
        /\ Last(stdout).n = Printed("counted")
        /\ Last(stdout).n = count
        /\ state = "IN_WHISTLE" => Opens = Closes + 1
        /\ state = "IDLE" => Opens = Closes

\* interrupted with one whistle counted and a second one open
C12_Witness ==
    /\ pc = "stopped" /\ state = "IN_WHISTLE"
    /\ count = 1 /\ Opens = 2
    /\ Last(stdout) = [kind |-> "stopped", n |-> 1]

\* C13: once seeded, noise_floor > 0 in every reachable state, for every
\* sequence of block energies and every command line accepted at startup.
C13_FloorPositive == noise_floor # None => Val(noise_floor).hi > 0

\* every block after the first carries the same energy
ConstantInput(h) ==
    Len(h) >= 2 /\ \A k \in 2..Len(h) : h[k].meansq = h[2].meansq

\* the floor of the model contains the value
\* E + (floor_0 - E) x (1 - alpha)^n and is no wider than the roundings of n
\* updates
ClosedForm(n, floor0, E) ==
    LET D == args.alphaDen
        N == args.alphaNum
        floor == Val(noise_floor)
    IN  /\ (floor.lo - E) * D ^ n <= (floor0 - E) * (D - N) ^ n
        /\ (floor0 - E) * (D - N) ^ n <= (floor.hi - E) * D ^ n
        /\ floor.hi - floor.lo <= 2 * n

\* the block of the step leaves the floor between the floor before it and
\* the energy of the block
TowardEnergy ==
    LET e == Times(FloorScale, rms(Last(heard').meansq))
    IN  /\ MinOf({Val(noise_floor).lo, e.lo}) <= Val(noise_floor').lo
        /\ Val(noise_floor').hi <= MaxOf({Val(noise_floor).hi, e.hi})

\* C14: seeded with floor_0 and fed a constant energy E on every following
\* block, the floor after n of them satisfies
\* floor_n - E = (floor_0 - E) x (1 - alpha)^n, for alpha = 1/50, 1/10, 1/4,
\* 1/2 and 1; every block moves the floor toward its energy and not beyond
\* (no overshoot), in warm-up or not, IDLE or IN_WHISTLE.
C14_GeometricConvergence ==
    /\ [](ConstantInput(heard) =>
            ClosedForm(Len(heard) - 1, rms(heard[1].meansq).lo * FloorScale,
                       rms(heard[2].meansq).lo * FloorScale))
    /\ [][(BlockStep /\ heard # <<>>) => TowardEnergy]_vars

\* alpha = 1/10, seed of energy 1, then four blocks of energy 4 inside an
\* open whistle: 4 - floor = 3 x (9/10)^4, floor = 2.0317 (x 1024 = 2080.46)
C14_Witness ==
    /\ args.alphaDen = 10 /\ Len(heard) = 5 /\ ConstantInput(heard)
    /\ heard[1].meansq = 0 /\ heard[2].meansq = 15
    /\ state = "IN_WHISTLE"
    /\ Val(noise_floor).lo <= 2080 /\ Val(noise_floor).hi >= 2081

\* the floor after the step is (1 - alpha) x floor + alpha x e for the block
\* of the step
FloorSmoothed ==
    LET D == args.alphaDen
        N == args.alphaNum
        e == rms(Last(heard').meansq)
        lo == (D - N) * Val(noise_floor).lo + N * e.lo * FloorScale
        hi == (D - N) * Val(noise_floor).hi + N * e.hi * FloorScale
    IN  /\ D * Val(noise_floor').lo <= lo /\ lo < D * (Val(noise_floor').lo + 1)
        /\ D * (Val(noise_floor').hi - 1) < hi /\ hi <= D * Val(noise_floor').hi

\* C15: a block other than the seed with now - stream_t0 < warmup updates the
\* floor by floor <- (1 - alpha) floor + alpha e and leaves state,
\* whistle_t0, low_since and count alone (nothing is printed); the state is
\* IDLE throughout the warm-up; once a block has come outside the warm-up
\* every later block goes through the state machine.
C15_WarmupGating ==
    [][(BlockStep /\ heard # <<>>) =>
         LET now == Last(heard').t
             e == rms(Last(heard').meansq)
         IN  /\ Under(now - heard[1].t, args.warmup) =>
                   /\ FloorSmoothed
                   /\ UNCHANGED <<state, whistle_t0, low_since, count, stdout>>
                   /\ state = "IDLE"
             /\ (\E k \in 1..Len(heard) :
                      AtLeast(heard[k].t - heard[1].t, args.warmup))
                   => /\ AtLeast(now - heard[1].t, args.warmup)
                      /\ state = "IDLE" =>
                            (state' = "IN_WHISTLE")
                               \in Above(args, e, Val(noise_floor'))]_vars

\* two loud blocks inside the warm-up: the floor has followed them, nothing
\* was detected
C15_Witness ==
    /\ args.warmup = 500 /\ Len(heard) = 3
    /\ heard[1].meansq = 0 /\ heard[2].meansq = 4095 /\ heard[3].meansq = 4095
    /\ heard[3].t = heard[1].t
    /\ noise_floor = Some(Exactly(29248))
    /\ NoDetection

\* C16: every block but the seed updates the floor exactly once, IDLE or
\* IN_WHISTLE, and the rise and fall comparisons of the block use the floor
\* already updated with the block's own energy.
C16_UpdateBeforeCompare ==
    [][(BlockStep /\ heard # <<>>) =>
         LET e == rms(Last(heard').meansq)
             updated == Val(noise_floor')
             detecting == AtLeast(Last(heard').t - heard[1].t, args.warmup)
         IN  /\ FloorSmoothed
             /\ (detecting /\ state = "IDLE") =>
                   (state' = "IN_WHISTLE") \in Above(args, e, updated)
             /\ state = "IN_WHISTLE" =>
                   (low_since' # None) \in Below(args, e, updated)]_vars

\* floor 1.75, then a block of energy 4: above 2 x the previous floor (3.5)
\* but not above 2 x the updated floor (4.625): no whistle
C16_Witness ==
    /\ args.warmup = 500 /\ Len(heard) = 3
    /\ heard[1].meansq = 0 /\ heard[2].meansq = 15 /\ heard[3].meansq = 15
    /\ heard[2].t = heard[1].t
    /\ heard[3].t = heard[1].t + TicksPerSecond \div 2
    /\ noise_floor = Some(Exactly(2368))
    /\ NoDetection

\* a block opens a whistle / closes the open whistle
OpenStep == BlockStep /\ state = "IDLE" /\ state' = "IN_WHISTLE"

CloseStep == BlockStep /\ state = "IN_WHISTLE" /\ state' = "IDLE"

\* C17 as stated: in every reachable state with state = IDLE, low_since is
\* unset.
C17_IdleUnset == state = "IDLE" => low_since = None

\* C17: low_since is cleared when a whistle opens, not when it closes: the
\* closing block leaves the timestamp of its dip in low_since, so in IDLE
\* low_since is unset exactly until the first close, and whistle_t0 keeps the
\* start of the last whistle.
C17_ClearedOnOpen ==
    /\ [](state = "IDLE" => (low_since = None <=> Closes = 0))
    /\ [][/\ OpenStep => low_since' = None
          /\ CloseStep => /\ low_since' # None
                          /\ AtLeast(Last(heard').t - Val(low_since'),
                                     args.hold)
                          /\ whistle_t0' = whistle_t0
          /\ (BlockStep /\ state = "IDLE" /\ state' = "IDLE")
                => UNCHANGED <<low_since, whistle_t0>>]_vars

\* a counted whistle is over and low_since still holds its closing dip
C17_Witness ==
    /\ state = "IDLE" /\ low_since # None
    /\ Printed("counted") = 1 /\ Printed("ignored") = 0

\* C18: while IN_WHISTLE, a block below the fall threshold leaves in low_since
\* the timestamp of the first block of its continuous low run, whatever that
\* timestamp is, and the whistle closes at the first block of the run that is
\* hold or more after that first low block.
C18_DwellTimer ==
    [][(BlockStep /\ state = "IN_WHISTLE"
          /\ Surely(Below(args, rms(Last(heard').meansq),
                          Val(noise_floor')))) =>
         LET now == Last(heard').t
             first == IF dip = None THEN now ELSE Val(dip)
         IN  /\ low_since' = Some(first)
             /\ state' = "IDLE" <=> AtLeast(now - first, args.hold)]_vars

\* C19: no block both opens and closes a whistle, and the closing block has
\* whistle_t0 <= low_since <= now and duration = now - whistle_t0 >= hold,
\* which is the duration it prints.
C19_DurationIncludesHold ==
    [][BlockStep =>
         /\ state = "IDLE" => Closes' = Closes
         /\ state = "IN_WHISTLE" => Opens' = Opens
         /\ CloseStep =>
              LET now == Last(heard').t
              IN  /\ whistle_t0 <= Val(low_since')
                  /\ Val(low_since') <= now
                  /\ AtLeast(now - whistle_t0, args.hold)
                  /\ Last(stdout').duration = Fmt2(now - whistle_t0)]_vars

\* a whistle closed with duration exactly hold: it dipped in its opening
\* instant and the dip lasted 0.5 s
C19_Witness ==
    /\ args.hold = 500 /\ state = "IDLE" /\ Closes = 1
    /\ whistle_t0 = TicksPerSecond /\ low_since = Some(TicksPerSecond)
    /\ Last(heard).t = TicksPerSecond + TicksPerSecond \div 2
    /\ Last(Whistles).kind = "counted"

\* C20: count is the number of accepted closes so far; it never decreases,
\* grows by at most 1 per step and only on a closing block, and a block
\* prints at most one event.
C20_CountIsAcceptedCloses ==
    /\ [](count = Printed("counted"))
    /\ [][/\ count' \in {count, count + 1}
          /\ count' # count =>
               /\ CloseStep
               /\ Accepted(args, Last(heard').t - whistle_t0)
          /\ (CloseStep /\ Accepted(args, Last(heard').t - whistle_t0))
               => count' = count + 1
          /\ Len(Whistles') <= Len(Whistles) + 1
          /\ Len(Whistles') > Len(Whistles) => (OpenStep \/ CloseStep)]_vars

\* one whistle counted, a later one ignored
C20_Witness ==
    /\ count = 1 /\ Printed("ignored") = 1 /\ Opens = 2
    /\ state = "IDLE"
    /\ Last(Whistles).kind = "ignored"

====
